---- MODULE Spec2Model ----
(***************************************************************************)
(* A model of geekip/mux: the segment-keyed routing trie of trie.go        *)
(* (node.add, node.find, node.withContext), the dispatcher of mux.go       *)
(* (New, Use, Group, Method, Handle, ServeHTTP, Params, CurrentRoute) and  *)
(* the prefix-compressed trie of unnamed/part_000.                         *)
(*                                                                         *)
(* A Go string is a sequence of one-character strings; a Go map is a       *)
(* function; a *node is the index of the node in the heap `nodes` (0 is    *)
(* nil).                                                                   *)
(***************************************************************************)
EXTENDS Integers, Sequences, FiniteSets, TLC

\* ------------------------------------------------------------------------
\* Strings
\* ------------------------------------------------------------------------

\* The characters that occur, in byte order (the order regexp ranges use).
Alphabet == <<"*", "+", "-", "/", "0", "1", "2", "9", ":",
              "G", "P", "[", "]", "a", "b", "c", "g", "i", "l", "n", "p",
              "r", "u", "x", "{", "}">>

Ord(c) == CHOOSE k \in 1..Len(Alphabet) : Alphabet[k] = c

\* strings.HasPrefix / strings.HasSuffix
HasPrefix(s, p) == Len(s) >= Len(p) /\ SubSeq(s, 1, Len(p)) = p
HasSuffix(s, p) == Len(s) >= Len(p) /\ SubSeq(s, Len(s) - Len(p) + 1, Len(s)) = p

\* strings.Split(s, sep) for a one-character separator: every piece, the empty
\* ones included; Split("", sep) is [""].
RECURSIVE SplitFrom(_, _, _, _)
SplitFrom(s, sep, i, cur) ==
    IF i > Len(s) THEN <<cur>>
    ELSE IF s[i] = sep THEN <<cur>> \o SplitFrom(s, sep, i + 1, <<>>)
    ELSE SplitFrom(s, sep, i + 1, Append(cur, s[i]))

Split(s, sep) == SplitFrom(s, sep, 1, <<>>)

\* strings.Join(parts, sep)
RECURSIVE Join(_, _)
Join(parts, sep) ==
    IF Len(parts) = 0 THEN <<>>
    ELSE IF Len(parts) = 1 THEN parts[1]
    ELSE parts[1] \o <<sep>> \o Join(Tail(parts), sep)

\* strings.SplitN(s, sep, 2): cut at the first separator, if there is one.
SplitN2(s, sep) ==
    IF \E k \in 1..Len(s) : s[k] = sep
    THEN LET k == CHOOSE j \in 1..Len(s) : s[j] = sep /\ \A h \in 1..(j - 1) : s[h] # sep
         IN <<SubSeq(s, 1, k - 1), SubSeq(s, k + 1, Len(s))>>
    ELSE <<s>>

\* strings.ToUpper on the letters that occur in method names.
UpperChar(c) ==
    CASE c = "g" -> "G"
      [] c = "p" -> "P"
      [] OTHER -> c

ToUpper(s) == [k \in 1..Len(s) |-> UpperChar(s[k])]

\* trie.go:220-223
prefixRegexp == ":"
prefixWildcard == "*"
prefixParam == "{"
suffixParam == "}"

\* ------------------------------------------------------------------------
\* Regular expressions: regexp.MustCompile("^" + pattern + "$").MatchString
\* for patterns built from literal characters and ranges [x-y], each
\* optionally followed by +.
\* ------------------------------------------------------------------------

AtomLen(re, i) == IF re[i] = "[" THEN 5 ELSE 1

AtomMatches(re, i, c) ==
    IF re[i] = "["
    THEN Ord(re[i + 1]) <= Ord(c) /\ Ord(c) <= Ord(re[i + 3])
    ELSE re[i] = c

RECURSIVE MatchFrom(_, _, _, _)
MatchFrom(re, i, s, j) ==
    IF i > Len(re) THEN j > Len(s)
    ELSE LET next == i + AtomLen(re, i)
             plus == next <= Len(re) /\ re[next] = "+"
         IN  /\ j <= Len(s)
             /\ AtomMatches(re, i, s[j])
             /\ IF plus
                THEN MatchFrom(re, i, s, j + 1) \/ MatchFrom(re, next + 1, s, j + 1)
                ELSE MatchFrom(re, next, s, j + 1)

\* trie.go:234 anchors the pattern, so a segment matches only as a whole.
MatchString(re, s) == MatchFrom(re, 1, s, 1)

\* ------------------------------------------------------------------------
\* Handlers. An http.Handler value is the chain of middlewares wrapped
\* around a base handler; the nil handler has no chain and base "nil".
\* ------------------------------------------------------------------------

NilHandler == [chain |-> <<>>, base |-> "nil"]
BaseHandler(h) == [chain |-> <<>>, base |-> h]
Wrap(mw, h) == [chain |-> <<mw>> \o h.chain, base |-> h.base]
IsNilHandler(h) == h = NilHandler

\* README.md:156-187: a middleware returns a handler that does its work and
\* calls next.ServeHTTP. Running a composed handler enters its outermost
\* wrapper, which calls the handler it wrapped, down to the base handler: the
\* order in which they are entered.
RECURSIVE entered(_)
entered(h) ==
    IF h.chain = <<>> THEN <<h.base>>
    ELSE <<Head(h.chain)>> \o entered([chain |-> Tail(h.chain), base |-> h.base])

EmptyMap == <<>>
MapGet(m, k, default) == IF k \in DOMAIN m THEN m[k] ELSE default

\* mux.go:31: the root node New creates is the first node of the heap.
root == 1

\* trie.go:240-246
newNode == [children |-> EmptyMap, methods |-> EmptyMap, params |-> EmptyMap,
            paramName |-> <<>>, paramNode |-> 0, regex |-> <<>>,
            middlewares |-> <<>>, isEnd |-> FALSE, handler |-> NilHandler]

\* ------------------------------------------------------------------------
\* trie.go: the segment-keyed trie
\* ------------------------------------------------------------------------

\* A segment written {...} is a parameter segment (trie.go:264).
isParamSegment(segment) ==
    HasPrefix(segment, <<prefixParam>>) /\ HasSuffix(segment, <<suffixParam>>)

\* trie.go:265-267: the name of a parameter segment, marker included.
paramNameOf(segment) == SplitN2(SubSeq(segment, 2, Len(segment) - 1), prefixRegexp)[1]

\* trie.go:279-281: the regex of a parameter segment, <<>> when it has none,
\* <<pattern>> otherwise (makeRegexp caches by pattern text, so the compiled
\* expression is a function of the text).
regexOf(segment) ==
    LET parts == SplitN2(SubSeq(segment, 2, Len(segment) - 1), prefixRegexp)
    IN  IF Len(parts) > 1 THEN <<parts[2]>> ELSE <<>>

\* trie.go:270 and trie.go:336
isWildcardName(paramName) == HasPrefix(paramName, <<prefixWildcard>>)

\* trie.go:271: the wildcard is misplaced unless it is the last element of
\* strings.Split(pattern, "/"), empty elements counted.
wildcardMisplaced(segments, i) == i # Len(segments)

\* trie.go:297-304
addStaticNode(ns, n, segment) ==
    IF segment \in DOMAIN ns[n].children
    THEN [nodes |-> ns, node |-> ns[n].children[segment]]
    ELSE LET child == Len(ns) + 1
         IN  [nodes |-> Append([ns EXCEPT ![n].children = @ @@ (segment :> child)], newNode),
              node |-> child]

\* trie.go:276-283
addParamNodeOverwriting(ns, current, segment) ==
    LET fresh == ns[current].paramNode = 0
        child == IF fresh THEN Len(ns) + 1 ELSE ns[current].paramNode
        grown == IF fresh THEN Append([ns EXCEPT ![current].paramNode = child], newNode)
                 ELSE ns
    IN  [nodes |-> [grown EXCEPT ![child].paramName = paramNameOf(segment),
                                 ![child].regex = regexOf(segment)],
         node |-> child]

addParamNode(ns, current, segment) ==
    IF ns[current].paramNode = 0
    THEN LET child == Len(ns) + 1
         IN  [nodes |-> Append([ns EXCEPT ![current].paramNode = child],
                               [newNode EXCEPT !.paramName = paramNameOf(segment),
                                               !.regex = regexOf(segment)]),
              node |-> child]
    ELSE [nodes |-> ns, node |-> ns[current].paramNode]

\* trie.go:258-288: the walk over strings.Split(pattern, "/"); i is the Go
\* index plus one.
RECURSIVE addWalk(_, _, _, _)
addWalk(ns, current, segments, i) ==
    IF i > Len(segments) THEN [nodes |-> ns, node |-> current, err |-> "none"]
    ELSE LET segment == segments[i] IN
         IF segment = <<>> THEN addWalk(ns, current, segments, i + 1)
         ELSE IF isParamSegment(segment)
         THEN IF isWildcardName(paramNameOf(segment)) /\ wildcardMisplaced(segments, i)
              THEN [nodes |-> ns, node |-> 0, err |-> "wildcard must be the last segment"]
              ELSE LET r == addParamNode(ns, current, segment)
                   IN  addWalk(r.nodes, r.node, segments, i + 1)
         ELSE LET r == addStaticNode(ns, current, segment)
              IN  addWalk(r.nodes, r.node, segments, i + 1)

\* trie.go:290-293: the terminal node's binding. The middleware list is built
\* from the receiver's list (n, the root the walk started at), not from the
\* terminal node's own.
bindTerminal(ns, n, current, method, handler, middlewares) ==
    [ns EXCEPT ![current].isEnd = TRUE,
               ![current].methods = (method :> handler) @@ @,
               ![current].middlewares = ns[n].middlewares \o middlewares]

\* trie.go:250-294  node.add: [nodes, node, err]
add(ns, n, method, pattern, handler, middlewares) ==
    IF method = <<>> \/ pattern = <<>> \/ IsNilHandler(handler)
    THEN [nodes |-> ns, node |-> 0, err |-> "mux handle error"]
    ELSE LET w == addWalk(ns, n, Split(pattern, "/"), 1)
         IN  IF w.err # "none" THEN w
             ELSE [nodes |-> bindTerminal(w.nodes, n, w.node, method, handler, middlewares),
                   node |-> w.node, err |-> "none"]

\* trie.go:318: the static child for a segment, 0 when there is none.
staticChildNone(ns, current, segment) == 0

staticChild(ns, current, segment) == MapGet(ns[current].children, segment, 0)

\* trie.go:329: the parameter child carries a regex the segment fails.
regexRejectsNever(ns, paramNode, segment) == FALSE

regexRejects(ns, paramNode, segment) ==
    /\ ns[paramNode].regex # <<>>
    /\ ~MatchString(ns[paramNode].regex[1], segment)

\* trie.go:337: what a wildcard captures: the rest of strings.Split(url, "/")
\* from the current element on, joined.
wildcardCapture(segments, i) == Join(SubSeq(segments, i, Len(segments)), "/")

\* trie.go:312-345: the descent; [node, params], node 0 for "return nil".
RECURSIVE findWalk(_, _, _, _, _)
findWalk(ns, current, segments, i, params) ==
    IF i > Len(segments) THEN [node |-> current, params |-> params]
    ELSE LET segment == segments[i] IN
         IF segment = <<>> THEN findWalk(ns, current, segments, i + 1, params)
         ELSE IF staticChild(ns, current, segment) # 0
         THEN findWalk(ns, staticChild(ns, current, segment), segments, i + 1, params)
         ELSE IF ns[current].paramNode # 0
         THEN LET paramNode == ns[current].paramNode
                  paramName == ns[paramNode].paramName
              IN  IF regexRejects(ns, paramNode, segment)
                  THEN [node |-> 0, params |-> params]
                  ELSE IF isWildcardName(paramName)
                  THEN [node |-> paramNode,
                        params |-> (paramName :> wildcardCapture(segments, i)) @@ params]
                  ELSE findWalk(ns, paramNode, segments, i + 1,
                                (paramName :> segment) @@ params)
         ELSE [node |-> 0, params |-> params]

\* trie.go:349-352: the method's handler, else the handler of "*".
resolve(ns, current, method) ==
    LET handler == MapGet(ns[current].methods, method, NilHandler)
    IN  IF IsNilHandler(handler)
        THEN MapGet(ns[current].methods, <<prefixWildcard>>, NilHandler)
        ELSE handler

\* trie.go:354-356: the middlewares wrapped around the handler, last first,
\* whether the handler is nil or not.
RECURSIVE wrapFirstToLast(_, _, _)
wrapFirstToLast(mws, i, handler) ==
    IF i < 1 THEN handler ELSE Wrap(mws[i], wrapFirstToLast(mws, i - 1, handler))

RECURSIVE wrapAll(_, _, _)
wrapAll(mws, i, handler) ==
    IF i < 1 THEN handler ELSE wrapAll(mws, i - 1, Wrap(mws[i], handler))

compose(ns, current, method) ==
    wrapAll(ns[current].middlewares, Len(ns[current].middlewares),
            resolve(ns, current, method))

\* trie.go:308-362  node.find: the node returned (0 for nil), the parameter
\* map and handler it computed, and the heap after its writes to the node.
find(ns, n, method, url) ==
    LET w == findWalk(ns, n, Split(url, "/"), 1, EmptyMap)
    IN  IF w.node # 0 /\ ns[w.node].isEnd
        THEN LET handler == compose(ns, w.node, method)
             IN  [node |-> w.node, params |-> w.params, handler |-> handler,
                  nodes |-> [ns EXCEPT ![w.node].params = w.params,
                                       ![w.node].handler = handler]]
        ELSE [node |-> 0, params |-> EmptyMap, handler |-> NilHandler, nodes |-> ns]

\* ------------------------------------------------------------------------
\* unnamed/part_000: the prefix-compressed trie. A node also carries its key.
\* ------------------------------------------------------------------------

\* part_000:66-73
newNode000(key) == [key |-> key, children |-> EmptyMap, methods |-> EmptyMap,
                    params |-> EmptyMap, paramName |-> <<>>, paramNode |-> 0,
                    regex |-> <<>>, middlewares |-> <<>>, isEnd |-> FALSE,
                    handler |-> NilHandler]

\* part_000:52-63: the length of the common prefix.
RECURSIVE commonFrom(_, _, _)
commonFrom(str1, str2, i) ==
    IF i > Len(str1) \/ i > Len(str2) THEN i - 1
    ELSE IF str1[i] # str2[i] THEN i - 1
    ELSE commonFrom(str1, str2, i + 1)

minLength(str1, str2) == commonFrom(str1, str2, 1)

\* part_000:108-145. The keys of a node's children differ in their first
\* character, so the range over the map meets at most one key that shares a
\* prefix with the segment, whatever the iteration order.
RECURSIVE addStatic(_, _, _)
addStatic(ns, node, segment) ==
    IF Len(segment) = 0 THEN [nodes |-> ns, node |-> node]
    ELSE LET shared == {key \in DOMAIN ns[node].children : minLength(segment, key) > 0}
         IN  IF shared = {}
             THEN LET fresh == Len(ns) + 1
                  IN  [nodes |-> Append([ns EXCEPT ![node].children = (segment :> fresh) @@ @],
                                        newNode000(segment)),
                       node |-> fresh]
             ELSE LET key == CHOOSE k \in shared : TRUE
                      child == ns[node].children[key]
                      clen == minLength(segment, key)
                      cPrefix == SubSeq(segment, 1, clen)
                      rPath == SubSeq(segment, clen + 1, Len(segment))
                      rKey == SubSeq(key, clen + 1, Len(key))
                  IN  IF Len(rKey) > 0
                      THEN LET cNode == Len(ns) + 1
                               kept == [k \in (DOMAIN ns[node].children) \ {key} |->
                                           ns[node].children[k]]
                               split == [ns EXCEPT ![node].children = (cPrefix :> cNode) @@ kept,
                                                   ![child].key = rKey]
                               inner == [newNode000(cPrefix) EXCEPT !.children = (rKey :> child)]
                           IN  IF Len(rPath) > 0
                               THEN [nodes |-> Append(Append(split,
                                            [inner EXCEPT !.children = (rPath :> (cNode + 1)) @@ @]),
                                            newNode000(rPath)),
                                     node |-> cNode + 1]
                               ELSE [nodes |-> Append(split, inner), node |-> cNode]
                      ELSE addStatic(ns, child, rPath)

\* part_000:85-96: the parameter child; its name is set by every registration
\* that passes, its regex by every one that carries a regex.
addParam000(ns, node, segment) ==
    LET fresh == ns[node].paramNode = 0
        child == IF fresh THEN Len(ns) + 1 ELSE ns[node].paramNode
        grown == IF fresh
                 THEN Append([ns EXCEPT ![node].paramNode = child], newNode000(segment))
                 ELSE ns
    IN  [nodes |-> [grown EXCEPT ![child].paramName = paramNameOf(segment),
                                 ![child].regex = IF regexOf(segment) # <<>>
                                                  THEN regexOf(segment) ELSE @],
         node |-> child]

\* part_000:81-101
RECURSIVE addWalk000(_, _, _, _)
addWalk000(ns, node, segments, i) ==
    IF i > Len(segments) THEN [nodes |-> ns, node |-> node]
    ELSE LET segment == segments[i] IN
         IF segment = <<>> THEN addWalk000(ns, node, segments, i + 1)
         ELSE LET r == IF isParamSegment(segment)
                       THEN addParam000(ns, node, segment)
                       ELSE addStatic(ns, node, segment)
              IN  addWalk000(r.nodes, r.node, segments, i + 1)

\* part_000:76-106  node.add: [nodes, node], node 0 for nil
add000(ns, n, method, pattern, handler, middlewares) ==
    IF method = <<>> \/ pattern = <<>> \/ IsNilHandler(handler)
    THEN [nodes |-> ns, node |-> 0]
    ELSE LET w == addWalk000(ns, n, Split(pattern, "/"), 1)
         IN  [nodes |-> [w.nodes EXCEPT
                            ![w.node].isEnd = TRUE,
                            ![w.node].methods = (method :> handler) @@ @,
                            ![w.node].middlewares = @ \o middlewares],
              node |-> w.node]

\* part_000:147-160: [node, param], node 0 for nil
matchParameter(ns, n, segment, reSegment) ==
    LET node == ns[n].paramNode
    IN  IF isWildcardName(ns[node].paramName)
        THEN [node |-> node, param |-> Join(reSegment, "/")]
        ELSE IF ns[node].regex # <<>> /\ ~MatchString(ns[node].regex[1], segment)
        THEN [node |-> 0, param |-> <<>>]
        ELSE [node |-> node, param |-> segment]

\* part_000:162-169: a child whose key is a prefix of the segment (at most one,
\* the keys differing in their first character), 0 for nil.
matchStatic(ns, n, segment) ==
    LET hits == {key \in DOMAIN ns[n].children : HasPrefix(segment, key)}
    IN  IF hits = {} THEN 0 ELSE ns[n].children[CHOOSE key \in hits : TRUE]

\* part_000:175-192: the parameter child is tried before the static children,
\* and a segment that matches nothing is skipped.
RECURSIVE findWalk000(_, _, _, _, _)
findWalk000(ns, node, segments, i, params) ==
    IF i > Len(segments) THEN [node |-> node, params |-> params]
    ELSE LET segment == segments[i] IN
         IF segment = <<>> THEN findWalk000(ns, node, segments, i + 1, params)
         ELSE IF ns[node].paramNode # 0
         THEN LET m == matchParameter(ns, node, segment,
                                      SubSeq(segments, i, Len(segments)))
              IN  IF m.node # 0
                  THEN findWalk000(ns, m.node, segments, i + 1,
                                   (ns[m.node].paramName :> m.param) @@ params)
                  ELSE findWalk000(ns, node, segments, i + 1, params)
         ELSE IF matchStatic(ns, node, segment) # 0
         THEN findWalk000(ns, matchStatic(ns, node, segment), segments, i + 1, params)
         ELSE findWalk000(ns, node, segments, i + 1, params)

\* part_000:196-203: the method's handler, else that of "*", wrapped by the
\* node's middlewares.
compose000(ns, node, method) ==
    LET own == MapGet(ns[node].methods, method, NilHandler)
        handler == IF IsNilHandler(own)
                   THEN MapGet(ns[node].methods, <<prefixWildcard>>, NilHandler)
                   ELSE own
    IN  wrapAll(ns[node].middlewares, Len(ns[node].middlewares), handler)

\* part_000:172-209  node.find
find000(ns, n, method, url) ==
    LET w == findWalk000(ns, n, Split(url, "/"), 1, EmptyMap)
    IN  IF ns[w.node].isEnd
        THEN LET handler == compose000(ns, w.node, method)
             IN  [node |-> w.node, params |-> w.params, handler |-> handler,
                  nodes |-> [ns EXCEPT ![w.node].params = w.params,
                                       ![w.node].handler = handler]]
        ELSE [node |-> 0, params |-> EmptyMap, handler |-> NilHandler, nodes |-> ns]

\* ------------------------------------------------------------------------
\* trie.go:1-181: the trie with one child per character
\* ------------------------------------------------------------------------

\* trie.go:117-125  addChildNodes: the walk goes on from the node the previous
\* segment ended at, one child per character. [nodes, node]
RECURSIVE addChildNodes(_, _, _, _)
addChildNodes(ns, n, segment, k) ==
    IF k > Len(segment) THEN [nodes |-> ns, node |-> n]
    ELSE LET char == segment[k] IN
         IF char \in DOMAIN ns[n].children
         THEN addChildNodes(ns, ns[n].children[char], segment, k + 1)
         ELSE LET fresh == Len(ns) + 1
              IN  addChildNodes(Append([ns EXCEPT ![n].children = (char :> fresh) @@ @],
                                       newNode),
                                fresh, segment, k + 1)

\* trie.go:127-134  extractParam: the name is set by every registration that
\* passes, the regex by every one that carries a regex.
extractParam(ns, n, part) ==
    [ns EXCEPT ![n].paramName = paramNameOf(part),
               ![n].regex = IF regexOf(part) # <<>> THEN regexOf(part) ELSE @]

\* trie.go:63-76
RECURSIVE addWalkRune(_, _, _, _)
addWalkRune(ns, node, segments, i) ==
    IF i > Len(segments) THEN [nodes |-> ns, node |-> node]
    ELSE LET segment == segments[i] IN
         IF segment = <<>> THEN addWalkRune(ns, node, segments, i + 1)
         ELSE IF isParamSegment(segment)
         THEN LET fresh == ns[node].paramNode = 0
                  child == IF fresh THEN Len(ns) + 1 ELSE ns[node].paramNode
                  grown == IF fresh
                           THEN Append([ns EXCEPT ![node].paramNode = child], newNode)
                           ELSE ns
              IN  addWalkRune(extractParam(grown, child, segment), child, segments, i + 1)
         ELSE LET r == addChildNodes(ns, node, segment, 1)
              IN  addWalkRune(r.nodes, r.node, segments, i + 1)

\* trie.go:58-81  node.add of the character trie: [nodes, node], node 0 for nil
addRune(ns, n, method, pattern, handler, middlewares) ==
    IF method = <<>> \/ pattern = <<>> \/ IsNilHandler(handler)
    THEN [nodes |-> ns, node |-> 0]
    ELSE LET w == addWalkRune(ns, n, Split(pattern, "/"), 1)
         IN  [nodes |-> [w.nodes EXCEPT
                            ![w.node].isEnd = TRUE,
                            ![w.node].methods = (method :> handler) @@ @,
                            ![w.node].middlewares = @ \o middlewares],
              node |-> w.node]

\* trie.go:146-156  findStatic: the node the characters lead to, 0 for nil
RECURSIVE findStatic(_, _, _, _)
findStatic(ns, n, segment, k) ==
    IF k > Len(segment) THEN n
    ELSE IF segment[k] \in DOMAIN ns[n].children
    THEN findStatic(ns, ns[n].children[segment[k]], segment, k + 1)
    ELSE 0

\* trie.go:158-173  findParam: [node, params], node 0 for nil
findParam(ns, n, segment, params) ==
    LET paramNode == ns[n].paramNode
    IN  IF paramNode = 0 THEN [node |-> 0, params |-> params]
        ELSE IF ns[paramNode].regex # <<>> /\ ~MatchString(ns[paramNode].regex[1], segment)
        THEN [node |-> 0, params |-> params]
        ELSE [node |-> paramNode,
              params |-> (ns[paramNode].paramName :> segment) @@ params]

\* trie.go:136-144  findNode
findNode(ns, n, segment, params) ==
    IF findStatic(ns, n, segment, 1) # 0
    THEN [node |-> findStatic(ns, n, segment, 1), params |-> params]
    ELSE findParam(ns, n, segment, params)

\* trie.go:86-94
RECURSIVE findWalkRune(_, _, _, _, _)
findWalkRune(ns, node, segments, i, params) ==
    IF i > Len(segments) THEN [node |-> node, params |-> params]
    ELSE IF segments[i] = <<>> THEN findWalkRune(ns, node, segments, i + 1, params)
    ELSE LET r == findNode(ns, node, segments[i], params)
         IN  IF r.node = 0 THEN r
             ELSE findWalkRune(ns, r.node, segments, i + 1, r.params)

\* trie.go:98-109: the middlewares are applied only to a handler that is not nil.
composeRune(ns, node, method) ==
    LET own == MapGet(ns[node].methods, method, NilHandler)
        handler == IF IsNilHandler(own)
                   THEN MapGet(ns[node].methods, <<prefixWildcard>>, NilHandler)
                   ELSE own
    IN  IF IsNilHandler(handler) THEN handler
        ELSE wrapAll(ns[node].middlewares, Len(ns[node].middlewares), handler)

\* trie.go:83-115  node.find of the character trie
findRune(ns, n, method, url) ==
    LET w == findWalkRune(ns, n, Split(url, "/"), 1, EmptyMap)
    IN  IF w.node # 0 /\ ns[w.node].isEnd
        THEN LET handler == composeRune(ns, w.node, method)
             IN  [node |-> w.node, params |-> w.params, handler |-> handler,
                  nodes |-> [ns EXCEPT ![w.node].params = w.params,
                                       ![w.node].handler = handler]]
        ELSE [node |-> 0, params |-> EmptyMap, handler |-> NilHandler, nodes |-> ns]

\* ------------------------------------------------------------------------
\* mux.go: the dispatcher
\* ------------------------------------------------------------------------

\* path.Clean, on the elements between slashes: empty and "." elements go,
\* ".." removes the element before it (and is kept at the front of a path
\* that is not rooted).
RECURSIVE cleanWalk(_, _, _, _)
cleanWalk(segs, i, kept, rooted) ==
    IF i > Len(segs) THEN kept
    ELSE LET seg == segs[i] IN
         IF seg = <<>> \/ seg = <<".">> THEN cleanWalk(segs, i + 1, kept, rooted)
         ELSE IF seg = <<".", ".">>
         THEN IF Len(kept) > 0 /\ kept[Len(kept)] # <<".", ".">>
              THEN cleanWalk(segs, i + 1, SubSeq(kept, 1, Len(kept) - 1), rooted)
              ELSE IF rooted THEN cleanWalk(segs, i + 1, kept, rooted)
              ELSE cleanWalk(segs, i + 1, Append(kept, seg), rooted)
         ELSE cleanWalk(segs, i + 1, Append(kept, seg), rooted)

Clean(path) ==
    IF path = <<>> THEN <<".">>
    ELSE LET rooted == path[1] = "/"
             kept == cleanWalk(Split(path, "/"), 1, <<>>, rooted)
         IN  IF rooted THEN <<"/">> \o Join(kept, "/")
             ELSE IF kept = <<>> THEN <<".">>
             ELSE Join(kept, "/")

\* path.Join of two elements: the non-empty ones joined by a slash, cleaned;
\* "" when both are empty.
PathJoin2(a, b) ==
    IF a = <<>> /\ b = <<>> THEN <<>>
    ELSE IF a = <<>> THEN Clean(b)
    ELSE IF b = <<>> THEN Clean(a)
    ELSE Clean(a \o <<"/">> \o b)

\* mux.go:157-166
pathJoin(absolutePath, relativePath) ==
    IF relativePath = <<>> THEN absolutePath
    ELSE LET finalPath == PathJoin2(absolutePath, relativePath)
         IN  IF HasSuffix(relativePath, <<"/">>) /\ ~HasSuffix(finalPath, <<"/">>)
             THEN finalPath \o <<"/">>
             ELSE finalPath

\* mux.go:20: m.middlewares is a slice: a backing array (0 for none) and a
\* length. A backing array has a capacity and the elements written to it.
NilSlice == [arr |-> 0, len |-> 0]
capOf(arrs, s) == IF s.arr = 0 THEN 0 ELSE arrs[s.arr].cap
elemsOf(arrs, s) == IF s.arr = 0 THEN <<>> ELSE SubSeq(arrs[s.arr].elems, 1, s.len)

\* mux.go:50: the capacity append gives a slice of func values it has to
\* grow: the length needed if that is more than twice the old capacity, else
\* twice the old capacity, rounded up to an allocation size (1, 2, 3, 4, 6,
\* 8 elements of one word).
roundupsize(n) == IF n = 5 \/ n = 7 THEN n + 1 ELSE n
growCap(oldCap, newLen) ==
    IF newLen > 2 * oldCap THEN roundupsize(newLen) ELSE roundupsize(2 * oldCap)

\* mux.go:50  append(m.middlewares, middlewares...): within the capacity the
\* elements are written to the slice's own backing array, past its length;
\* beyond it to a new array. [arrays, slice]
append(arrs, s, xs) ==
    IF xs = <<>> THEN [arrays |-> arrs, slice |-> s]
    ELSE IF s.len + Len(xs) <= capOf(arrs, s)
    THEN [arrays |-> [arrs EXCEPT ![s.arr].elems = SubSeq(@, 1, s.len) \o xs],
          slice |-> [arr |-> s.arr, len |-> s.len + Len(xs)]]
    ELSE [arrays |-> Append(arrs, [cap |-> growCap(capOf(arrs, s), s.len + Len(xs)),
                                   elems |-> elemsOf(arrs, s) \o xs]),
          slice |-> [arr |-> Len(arrs) + 1, len |-> s.len + Len(xs)]]

\* mux.go:29-43  New: the responders and the panic handler are set.
New == [prefix |-> <<>>, methods |-> <<>>, middlewares |-> NilSlice,
        notFoundHandler |-> "set", methodNotAllowedHandler |-> "set",
        internalErrorHandler |-> "set", panicHandler |-> "set"]

\* mux.go:55-61  Group: the literal names prefix, node and middlewares only,
\* so the responders and the panic handler of the new Mux are nil.
Group(m, pattern) ==
    [prefix |-> pathJoin(m.prefix, pattern), methods |-> <<>>,
     middlewares |-> m.middlewares,
     notFoundHandler |-> "nil", methodNotAllowedHandler |-> "nil",
     internalErrorHandler |-> "nil", panicHandler |-> "nil"]

\* mux.go:78-84: the loop of Handle over m.methods. Each add's error goes to
\* m.panicHandler: the one New sets panics with it, which ends Handle; a nil
\* one is a nil function call, which panics too.
\* [nodes, errs, added, panic]
RECURSIVE handleLoop(_, _, _, _, _, _, _, _)
handleLoop(ns, m, middlewares, fullPattern, handler, k, errs, added) ==
    IF k > Len(m.methods)
    THEN [nodes |-> ns, errs |-> errs, added |-> added, panic |-> "none"]
    ELSE LET method == ToUpper(m.methods[k])
             r == add(ns, root, method, fullPattern, handler, middlewares)
         IN  IF r.err # "none"
             THEN [nodes |-> r.nodes, errs |-> Append(errs, r.err), added |-> added,
                   panic |-> IF m.panicHandler = "nil"
                             THEN "nil function call" ELSE "panicHandler(err)"]
             ELSE handleLoop(r.nodes, m, middlewares, fullPattern, handler, k + 1,
                             Append(errs, r.err),
                             added \cup {[method |-> method, pattern |-> fullPattern,
                                          node |-> r.node, node000 |-> 0]})

\* mux.go:95-114, the deferred recover included: what running the chosen
\* handler does. A composed handler enters its middlewares in order, each
\* calling its next; a nil next, a nil responder and the handler "hpanic"
\* panic. The recovered panic goes to m.internalErrorHandler, and calling a
\* nil one panics out of ServeHTTP.
handlerPanics(m, kind, handler) ==
    CASE kind = "notFound" -> m.notFoundHandler = "nil"
      [] kind = "methodNotAllowed" -> m.methodNotAllowedHandler = "nil"
      [] OTHER -> handler.base \in {"nil", "hpanic"}

recover(m, kind, handler) ==
    IF ~handlerPanics(m, kind, handler) THEN [internalErrors |-> 0, propagated |-> FALSE]
    ELSE IF m.internalErrorHandler = "nil" THEN [internalErrors |-> 0, propagated |-> TRUE]
    ELSE [internalErrors |-> 1, propagated |-> FALSE]

\* trie.go:216-217
keyParam == 0
keyRoute == 1

NodeValue(n) == [kind |-> "node", node |-> n, map |-> EmptyMap]
MapValue(m) == [kind |-> "map", node |-> 0, map |-> m]
NilMap == [isNil |-> TRUE, map |-> EmptyMap]
SomeMap(m) == [isNil |-> FALSE, map |-> m]

\* trie.go:365-371  node.withContext: the context values under the two keys.
withContextAlways(ns, n) == (keyRoute :> NodeValue(n)) @@ (keyParam :> MapValue(ns[n].params))

withContext(ns, n) ==
    IF Cardinality(DOMAIN ns[n].params) > 0
    THEN (keyParam :> MapValue(ns[n].params)) @@ (keyRoute :> NodeValue(n))
    ELSE (keyRoute :> NodeValue(n))

\* mux.go:141-146  Params
Params(ctx) ==
    IF keyParam \in DOMAIN ctx /\ ctx[keyParam].kind = "map"
    THEN SomeMap(ctx[keyParam].map)
    ELSE NilMap

\* mux.go:149-154  CurrentRoute: the node, 0 for nil
CurrentRoute(ctx) == IF keyRoute \in DOMAIN ctx THEN ctx[keyRoute].node ELSE 0

\* ------------------------------------------------------------------------
\* Inputs
\* ------------------------------------------------------------------------

MaxAdds == 2
MaxLookups == 1

GET == <<"G">>
POST == <<"P">>
ANY == <<"*">>

\* /u/l  /u/{i}  /u/{n:[0-9]+}  /u/{i}/b  /f/{*r}  /f/{*r}/b  /f/*r  //u//l/  /  ""
\* /f/{*r}/
PatUL == <<"/", "u", "/", "l">>
PatUI == <<"/", "u", "/", "{", "i", "}">>
PatUN == <<"/", "u", "/", "{", "n", ":", "[", "0", "-", "9", "]", "+", "}">>
PatUIB == <<"/", "u", "/", "{", "i", "}", "/", "b">>
PatFW == <<"/", "f", "/", "{", "*", "r", "}">>
PatFWB == <<"/", "f", "/", "{", "*", "r", "}", "/", "b">>
PatFStar == <<"/", "f", "/", "*", "r">>
PatULSlashes == <<"/", "/", "u", "/", "/", "l", "/">>
PatRoot == <<"/">>
PatEmpty == <<>>
PatFWSlash == <<"/", "f", "/", "{", "*", "r", "}", "/">>

Patterns == {PatUL, PatUI, PatUN, PatUIB, PatFW, PatFWB, PatFStar, PatULSlashes,
             PatRoot, PatEmpty, PatFWSlash}

\* /u/l  /u/12  /u/ab  /u/ab/b  /u/l/b  /f/a/b/c  /f/a//b/  /f  //u//l/  /
UrlUL == <<"/", "u", "/", "l">>
UrlU12 == <<"/", "u", "/", "1", "2">>
UrlUab == <<"/", "u", "/", "a", "b">>
UrlUabB == <<"/", "u", "/", "a", "b", "/", "b">>
UrlULB == <<"/", "u", "/", "l", "/", "b">>
UrlFabc == <<"/", "f", "/", "a", "/", "b", "/", "c">>
UrlFaSlashB == <<"/", "f", "/", "a", "/", "/", "b", "/">>
UrlF == <<"/", "f">>
UrlULSlashes == <<"/", "/", "u", "/", "/", "l", "/">>
UrlRoot == <<"/">>

Urls == {UrlUL, UrlU12, UrlUab, UrlUabB, UrlULB, UrlFabc, UrlFaSlashB, UrlF, UrlULSlashes,
         UrlRoot}

PatULWB == <<"/", "u", "/", "l", "/", "{", "*", "r", "}", "/", "b">>
RegPatterns == {PatUL, PatUI, PatRoot, PatULWB}
MwLists == {<<>>, <<"m1">>, <<"m1", "m2">>}
RegUrls == {UrlUL, UrlU12, UrlRoot}

PatUW == <<"/", "u", "/", "{", "*", "r", "}">>
ParamPatterns == {PatUI, PatUN, PatUW, PatUIB, PatUL}
ParamUrls == {UrlU12, UrlUab, UrlUabB, UrlUL}

RegMethods == {GET, ANY}
ReqMethods == {GET, POST}
H1 == BaseHandler("h1")
HPanic == BaseHandler("hpanic")

\* What the dispatcher is given: Method("g"), Use(m1), Group("/g"), and
\* Handle of /u/{i}, /u/l and /f/{*r}/b; requests for /u/12, /u/l, /g/u/12, /f.
MaxSetup == 3
MaxGroupSetup == 7
MaxMuxes == 2
NProcs == 2

PatG == <<"/", "g">>
UrlGU12 == <<"/", "g", "/", "u", "/", "1", "2">>
MuxPatterns == {PatUI, PatUL, PatFWB}
MuxHandlers == {H1, HPanic}
MuxUrls == {UrlU12, UrlUL, UrlGU12, UrlF}
MethodArgs == {<<"g">>}
Middlewares == {"m1"}
Procs == 1..NProcs

\* ------------------------------------------------------------------------
\* State
\* ------------------------------------------------------------------------

VARIABLES
    nodes,      \* the heap of trie.go nodes; nodes[1] is the root (Mux.node)
    nodes000,   \* the heap of part_000 nodes, given the same add and find calls
    nodesRune,  \* the heap of the character trie, given the same add and find calls
    routes,     \* the add calls that returned a node in trie.go, with the nodes
    nAdds,      \* the number of add calls made
    lastAdd,    \* the latest add call and what it returned
    regs,       \* the add calls made, in order
    serving,    \* registration is over
    nFinds,     \* the number of find calls made
    found,      \* the latest find call and what trie.go's find returned
    found000,   \* what part_000's find returned for it
    foundRune,  \* what the character trie's find returned for it
    muxes,      \* the Mux values: muxes[1] is New(), the others come from Group
    arrays,     \* the backing arrays of the middleware slices of the Mux values
    granted,    \* for each Mux, its parent's middlewares when Group made it and
                \* then those of its own Use calls
    nSetup,     \* the number of Use, Group, Method and Handle calls made
    handled,    \* the latest Handle call and how it ended
    pc,         \* where each ServeHTTP call is
    req,        \* its receiver and request: [mux, method, url]
    loc,        \* its local variables, and those of the find it called
    out         \* what it did: the handler it ran, with which context, and the recover

trieVars == <<nodes000, nodesRune, nAdds, lastAdd, regs, nFinds, found, found000, foundRune>>
muxVars == <<muxes, arrays, granted, nSetup, handled>>
reqVars == <<pc, req, loc, out>>
vars == <<nodes, nodes000, nodesRune, routes, nAdds, lastAdd, regs, serving, nFinds,
          found, found000, foundRune, muxes, arrays, granted, nSetup, handled,
          pc, req, loc, out>>


NoAdd == [method |-> <<>>, pattern |-> <<>>, handler |-> NilHandler,
          middlewares |-> <<>>, err |-> "no call", node |-> 0]
NoFind == [method |-> <<>>, url |-> <<>>, called |-> FALSE, node |-> 0,
           params |-> EmptyMap, handler |-> NilHandler]
NoHandle == [call |-> 0, mux |-> 0, pattern |-> <<>>, fullPattern |-> <<>>,
             middlewares |-> <<>>, errs |-> <<>>, panic |-> "none"]
NoReq == [mux |-> 0, method |-> <<>>, url |-> <<>>]
NoLoc == [node |-> 0, params |-> EmptyMap, composed |-> NilHandler,
          kind |-> "none", handler |-> NilHandler, ctx |-> EmptyMap]
NoOut == [kind |-> "none", handler |-> NilHandler, ctx |-> EmptyMap,
          internalErrors |-> 0, propagated |-> FALSE]

Init ==
    /\ nodes = <<newNode>>
    /\ nodes000 = <<newNode000(<<>>)>>
    /\ nodesRune = <<newNode>>
    /\ routes = {}
    /\ nAdds = 0
    /\ lastAdd = NoAdd
    /\ regs = <<>>
    /\ serving = FALSE
    /\ nFinds = 0
    /\ found = NoFind
    /\ found000 = NoFind
    /\ foundRune = NoFind
    /\ muxes = <<New>>
    /\ arrays = <<>>
    /\ granted = <<<<>>>>
    /\ nSetup = 0
    /\ handled = NoHandle
    /\ pc = [p \in Procs |-> "idle"]
    /\ req = [p \in Procs |-> NoReq]
    /\ loc = [p \in Procs |-> NoLoc]
    /\ out = [p \in Procs |-> NoOut]

\* A call of node.add on the root during registration.
Add(method, pattern, handler, middlewares) ==
    /\ ~serving
    /\ nAdds < MaxAdds
    /\ LET r == add(nodes, root, method, pattern, handler, middlewares)
           r000 == add000(nodes000, root, method, pattern, handler, middlewares)
           rRune == addRune(nodesRune, root, method, pattern, handler, middlewares)
           call == [method |-> method, pattern |-> pattern, handler |-> handler,
                    middlewares |-> middlewares, err |-> r.err, node |-> r.node]
       IN  /\ nodes' = r.nodes
           /\ nodes000' = r000.nodes
           /\ nodesRune' = rRune.nodes
           /\ lastAdd' = call
           /\ regs' = Append(regs, call)
           /\ routes' = IF r.err = "none"
                        THEN routes \cup {[method |-> method, pattern |-> pattern,
                                           node |-> r.node, node000 |-> r000.node]}
                        ELSE routes
    /\ nAdds' = nAdds + 1
    /\ UNCHANGED <<serving, nFinds, found, found000, foundRune>>
    /\ UNCHANGED <<muxVars, reqVars>>

AddValid == \E method \in RegMethods, pattern \in Patterns \ {PatEmpty} :
                Add(method, pattern, H1, <<>>)

AddInvalid ==
    \/ Add(<<>>, PatUL, H1, <<>>)
    \/ Add(GET, PatEmpty, H1, <<>>)
    \/ Add(GET, PatUL, NilHandler, <<>>)

StartServing ==
    /\ ~serving
    /\ serving' = TRUE
    /\ handled.panic = "none"
    /\ UNCHANGED <<nodes, routes, trieVars, muxVars, reqVars>>

\* A call of node.find on the root.
Lookup(method, url) ==
    /\ serving
    /\ nFinds < MaxLookups
    /\ LET r == find(nodes, root, method, url)
           r000 == find000(nodes000, root, method, url)
           rRune == findRune(nodesRune, root, method, url)
       IN  /\ nodes' = r.nodes
           /\ nodes000' = r000.nodes
           /\ nodesRune' = rRune.nodes
           /\ foundRune' = [method |-> method, url |-> url, called |-> TRUE,
                            node |-> rRune.node, params |-> rRune.params,
                            handler |-> rRune.handler]
           /\ found' = [method |-> method, url |-> url, called |-> TRUE,
                        node |-> r.node, params |-> r.params, handler |-> r.handler]
           /\ found000' = [method |-> method, url |-> url, called |-> TRUE,
                           node |-> r000.node, params |-> r000.params,
                           handler |-> r000.handler]
    /\ nFinds' = nFinds + 1
    /\ UNCHANGED <<routes, nAdds, lastAdd, regs, serving, muxVars, reqVars>>

LookupAny == \E method \in ReqMethods, url \in Urls : Lookup(method, url)

NextTrie == AddValid \/ AddInvalid \/ StartServing \/ LookupAny

SpecTrie == Init /\ [][NextTrie]_vars

\* Registration with middleware lists: /u/l, /u/{i}, / and /u/l/{*r}/b under
\* GET or *, with no middleware, m1, or m1 and m2; lookups of /u/l, /u/12, /.
RegValid ==
    \E method \in RegMethods, pattern \in RegPatterns, middlewares \in MwLists :
        Add(method, pattern, H1, middlewares)

LookupReg == \E method \in ReqMethods, url \in RegUrls : Lookup(method, url)

NextReg == RegValid \/ AddInvalid \/ StartServing \/ LookupReg

SpecReg == Init /\ [][NextReg]_vars

\* Registrations that meet at the parameter position after /u: /u/{i},
\* /u/{n:[0-9]+}, /u/{*r}, /u/{i}/b, beside /u/l; lookups of /u/12, /u/ab,
\* /u/ab/b, /u/l.
ParamValid ==
    \E method \in RegMethods, pattern \in ParamPatterns : Add(method, pattern, H1, <<>>)

LookupParam == \E method \in ReqMethods, url \in ParamUrls : Lookup(method, url)

NextParam == ParamValid \/ AddInvalid \/ StartServing \/ LookupParam

SpecParam == Init /\ [][NextParam]_vars

\* ------------------------------------------------------------------------
\* The dispatcher's operations
\* ------------------------------------------------------------------------

\* Registration goes on: serving has not begun and no Handle has panicked.
SettingUp == ~serving /\ handled.panic = "none"

\* mux.go:46-52  Use, with one middleware or more to add
Use(m, middlewares) ==
    /\ SettingUp
    /\ LET r == append(arrays, muxes[m].middlewares, middlewares)
       IN  /\ arrays' = r.arrays
           /\ muxes' = [muxes EXCEPT ![m].middlewares = r.slice]
    /\ granted' = [granted EXCEPT ![m] = @ \o middlewares]
    /\ nSetup' = nSetup + 1
    /\ UNCHANGED <<nodes, routes, serving, handled, trieVars, reqVars>>

\* mux.go:55-61  Group
NewGroup(m, pattern) ==
    /\ SettingUp
    /\ Len(muxes) < MaxMuxes
    /\ muxes' = Append(muxes, Group(muxes[m], pattern))
    /\ granted' = Append(granted, granted[m])
    /\ nSetup' = nSetup + 1
    /\ UNCHANGED <<nodes, routes, serving, handled, arrays, trieVars, reqVars>>

\* mux.go:64-70  Method, with a method to add
Method(m, method) ==
    /\ SettingUp
    /\ muxes[m].methods = <<>>
    /\ muxes' = [muxes EXCEPT ![m].methods = @ \o method]
    /\ nSetup' = nSetup + 1
    /\ UNCHANGED <<nodes, routes, serving, handled, arrays, granted, trieVars, reqVars>>

\* mux.go:73-87  Handle. A panic leaves Handle before m.methods is reset.
Handle(m, pattern, handler) ==
    /\ SettingUp
    /\ LET fullPattern == pathJoin(muxes[m].prefix, pattern)
           withMethods == IF Len(muxes[m].methods) = 0
                          THEN [muxes[m] EXCEPT !.methods = <<ANY>>]
                          ELSE muxes[m]
           middlewares == elemsOf(arrays, muxes[m].middlewares)
           r == handleLoop(nodes, withMethods, middlewares, fullPattern, handler, 1,
                           <<>>, {})
       IN  /\ nodes' = r.nodes
           /\ routes' = routes \cup r.added
           /\ handled' = [call |-> nSetup + 1, mux |-> m, pattern |-> pattern,
                          fullPattern |-> fullPattern, middlewares |-> middlewares,
                          errs |-> r.errs, panic |-> r.panic]
           /\ muxes' = [muxes EXCEPT ![m].methods =
                            IF r.panic = "none" THEN <<>> ELSE withMethods.methods]
    /\ nSetup' = nSetup + 1
    /\ UNCHANGED <<serving, arrays, granted, trieVars, reqVars>>

Setup ==
    /\ nSetup < MaxSetup
    /\ \E m \in 1..Len(muxes) :
        \/ \E mw \in Middlewares : Use(m, <<mw>>)
        \/ NewGroup(m, PatG)
        \/ \E method \in MethodArgs : Method(m, <<method>>)
        \/ \E pattern \in MuxPatterns, handler \in MuxHandlers :
              Handle(m, pattern, handler)

\* mux.go:95  ServeHTTP is called on Mux m.
Begin(p, m, method, url) ==
    /\ serving
    /\ pc[p] = "idle"
    /\ pc' = [pc EXCEPT ![p] = "find"]
    /\ req' = [req EXCEPT ![p] = [mux |-> m, method |-> method, url |-> url]]
    /\ UNCHANGED <<nodes, routes, serving, trieVars, muxVars, loc, out>>

\* mux.go:103 into trie.go:308-357: find descends, resolves and composes
\* into its local variables, and writes the parameters to the node.
FindParams(p) ==
    /\ pc[p] = "find"
    /\ LET r == find(nodes, root, req[p].method, req[p].url)
       IN  /\ loc' = [loc EXCEPT ![p] = [@ EXCEPT !.node = r.node, !.params = r.params,
                                                  !.composed = r.handler]]
           /\ nodes' = IF r.node = 0 THEN nodes
                       ELSE [nodes EXCEPT ![r.node].params = r.params]
           /\ pc' = [pc EXCEPT ![p] = IF r.node = 0 THEN "read" ELSE "findH"]
    /\ UNCHANGED <<routes, serving, trieVars, muxVars, req, out>>

\* trie.go:358-359: find writes the handler to the node and returns the node.
FindHandler(p) ==
    /\ pc[p] = "findH"
    /\ nodes' = [nodes EXCEPT ![loc[p].node].handler = loc[p].composed]
    /\ pc' = [pc EXCEPT ![p] = "read"]
    /\ UNCHANGED <<routes, serving, trieVars, muxVars, req, loc, out>>

\* mux.go:104-110: the responder, or the handler read back from the node.
ReadHandler(p) ==
    /\ pc[p] = "read"
    /\ LET node == loc[p].node
           kind == IF node = 0 THEN "notFound"
                   ELSE IF IsNilHandler(nodes[node].handler) THEN "methodNotAllowed"
                   ELSE "route"
       IN  /\ loc' = [loc EXCEPT ![p] = [@ EXCEPT !.kind = kind,
                          !.handler = IF kind = "route" THEN nodes[node].handler
                                      ELSE NilHandler]]
           /\ pc' = [pc EXCEPT ![p] = IF node = 0 THEN "serve" ELSE "ctx"]
    /\ UNCHANGED <<nodes, routes, serving, trieVars, muxVars, req, out>>

\* mux.go:111 into trie.go:365-371: the context is built from the node's fields.
WithContext(p) ==
    /\ pc[p] = "ctx"
    /\ loc' = [loc EXCEPT ![p] = [@ EXCEPT !.ctx = withContext(nodes, loc[p].node)]]
    /\ pc' = [pc EXCEPT ![p] = "serve"]
    /\ UNCHANGED <<nodes, routes, serving, trieVars, muxVars, req, out>>

\* mux.go:113 and mux.go:96-100: the handler runs; its panic is recovered.
Serve(p) ==
    /\ pc[p] = "serve"
    /\ LET rec == recover(muxes[req[p].mux], loc[p].kind, loc[p].handler)
       IN  out' = [out EXCEPT ![p] = [kind |-> loc[p].kind, handler |-> loc[p].handler,
                                      ctx |-> loc[p].ctx,
                                      internalErrors |-> rec.internalErrors,
                                      propagated |-> rec.propagated]]
    /\ pc' = [pc EXCEPT ![p] = "done"]
    /\ UNCHANGED <<nodes, routes, serving, trieVars, muxVars, req, loc>>

\* ServeHTTP has returned (or panicked out); the goroutine takes another request.
Finish(p) ==
    /\ pc[p] = "done"
    /\ pc' = [pc EXCEPT ![p] = "idle"]
    /\ req' = [req EXCEPT ![p] = NoReq]
    /\ loc' = [loc EXCEPT ![p] = NoLoc]
    /\ out' = [out EXCEPT ![p] = NoOut]
    /\ UNCHANGED <<nodes, routes, serving, trieVars, muxVars>>

Step(p) ==
    \/ FindParams(p)
    \/ FindHandler(p)
    \/ ReadHandler(p)
    \/ WithContext(p)
    \/ Serve(p)
    \/ Finish(p)

\* One request at a time.
BeginAlone ==
    /\ \A q \in Procs : pc[q] = "idle"
    /\ \E m \in 1..Len(muxes), method \in ReqMethods, url \in MuxUrls :
          Begin(1, m, method, url)

NextMux == Setup \/ StartServing \/ BeginAlone \/ (\E p \in Procs : Step(p))

SpecMux == Init /\ [][NextMux]_vars

\* Registration through a Mux and its groups: Use of m1 on the Mux New
\* built and of m2 on a group, Group("/g"), and Handle of /u/l.
OwnMiddleware(m) == IF m = 1 THEN "m1" ELSE "m2"

UseOwn ==
    /\ nSetup < MaxGroupSetup
    /\ \E m \in 1..Len(muxes) : Use(m, <<OwnMiddleware(m)>>)

GroupUnder ==
    /\ nSetup < MaxGroupSetup
    /\ \E m \in 1..Len(muxes) : NewGroup(m, PatG)

HandleUnder ==
    /\ nSetup < MaxGroupSetup
    /\ \E m \in 1..Len(muxes) : Handle(m, PatUL, H1)

NextGroup == UseOwn \/ GroupUnder \/ HandleUnder

SpecGroup == Init /\ [][NextGroup]_vars

\* Concurrent requests, once registration has completed: New(), then
\* Method(..).Handle(..) for two of GET /u/{i}, * /u/{i}, GET /u/l, * /u/l
\* (the handler h1 for GET, hpanic for *), one of them behind Use(m1) or not.
ConcRoutes ==
    {[method |-> method, pattern |-> pattern,
      handler |-> IF method = GET THEN H1 ELSE HPanic] :
        method \in RegMethods, pattern \in {PatUI, PatUL}}

registered(ns, r, mws) == add(ns, root, r.method, r.pattern, r.handler, mws)

InitConc ==
    \E r1, r2 \in ConcRoutes : \E mws \in {<<>>, <<"m1">>} :
        LET a1 == registered(<<newNode>>, r1, <<>>)
            a2 == registered(a1.nodes, r2, mws)
        IN  /\ nodes = a2.nodes
            /\ routes = {[method |-> r1.method, pattern |-> r1.pattern,
                           node |-> a1.node, node000 |-> 0],
                          [method |-> r2.method, pattern |-> r2.pattern,
                           node |-> a2.node, node000 |-> 0]}
            /\ muxes = <<[New EXCEPT !.middlewares = append(<<>>, NilSlice, mws).slice]>>
            /\ arrays = append(<<>>, NilSlice, mws).arrays
            /\ granted = <<mws>>
            /\ nSetup = IF mws = <<>> THEN 2 ELSE 3
            /\ handled = [call |-> IF mws = <<>> THEN 2 ELSE 3, mux |-> 1,
                           pattern |-> r2.pattern, fullPattern |-> r2.pattern,
                           middlewares |-> mws, errs |-> <<"none">>, panic |-> "none"]
            /\ serving = TRUE
            /\ nodes000 = <<newNode000(<<>>)>>
            /\ nodesRune = <<newNode>>
            /\ nAdds = 0
            /\ lastAdd = NoAdd
            /\ regs = <<>>
            /\ nFinds = 0
            /\ found = NoFind
            /\ found000 = NoFind
            /\ foundRune = NoFind
            /\ pc = [p \in Procs |-> "idle"]
            /\ req = [p \in Procs |-> NoReq]
            /\ loc = [p \in Procs |-> NoLoc]
            /\ out = [p \in Procs |-> NoOut]

BeginConc ==
    \E p \in Procs, method \in ReqMethods, url \in {UrlU12, UrlUL} :
        Begin(p, 1, method, url)

NextConc == BeginConc \/ (\E p \in Procs : Step(p))

SpecConc == InitConc /\ [][NextConc]_vars

\* ------------------------------------------------------------------------
\* Patterns and the paths that instantiate them
\* ------------------------------------------------------------------------

Matched(f) == f.node # 0 /\ ~IsNilHandler(f.handler)
MethodNotSupported(f) == f.node # 0 /\ IsNilHandler(f.handler)
NotFound(f) == f.node = 0

\* A request method is served by a route registered under it or under "*".
MethodServes(routeMethod, method) == routeMethod = method \/ routeMethod = ANY

\* url instantiates pattern, element by element of the two splits: a static
\* element by itself, a parameter by a non-empty literal its regex accepts, a
\* final wildcard by one or more non-empty elements. [ok, params]
RECURSIVE instWalk(_, _, _, _)
instWalk(psegs, usegs, i, params) ==
    IF i > Len(psegs) THEN [ok |-> i > Len(usegs), params |-> params]
    ELSE IF i > Len(usegs) THEN [ok |-> FALSE, params |-> params]
    ELSE LET pseg == psegs[i]
             useg == usegs[i]
         IN  IF ~isParamSegment(pseg)
             THEN IF pseg = useg THEN instWalk(psegs, usegs, i + 1, params)
                  ELSE [ok |-> FALSE, params |-> params]
             ELSE IF isWildcardName(paramNameOf(pseg))
             THEN [ok |-> /\ i = Len(psegs)
                          /\ \A k \in i..Len(usegs) : usegs[k] # <<>>,
                   params |-> (paramNameOf(pseg) :>
                                  Join(SubSeq(usegs, i, Len(usegs)), "/")) @@ params]
             ELSE IF /\ useg # <<>>
                     /\ regexOf(pseg) # <<>> => MatchString(regexOf(pseg)[1], useg)
             THEN instWalk(psegs, usegs, i + 1, (paramNameOf(pseg) :> useg) @@ params)
             ELSE [ok |-> FALSE, params |-> params]

Instance(pattern, url) == instWalk(Split(pattern, "/"), Split(url, "/"), 1, EmptyMap)

\* The descent for url along pattern is not diverted: at every parameter
\* position of the pattern the node has no static child keyed by the path's
\* segment, and the parameter child there carries this segment's name and regex.
RECURSIVE undiverted(_, _, _, _, _)
undiverted(ns, current, psegs, usegs, i) ==
    IF i > Len(psegs) \/ i > Len(usegs) THEN TRUE
    ELSE LET pseg == psegs[i] IN
         IF pseg = <<>> THEN undiverted(ns, current, psegs, usegs, i + 1)
         ELSE IF ~isParamSegment(pseg)
         THEN /\ pseg \in DOMAIN ns[current].children
              /\ undiverted(ns, ns[current].children[pseg], psegs, usegs, i + 1)
         ELSE LET paramNode == ns[current].paramNode
              IN  /\ paramNode # 0
                  /\ usegs[i] \notin DOMAIN ns[current].children
                  /\ ns[paramNode].paramName = paramNameOf(pseg)
                  /\ ns[paramNode].regex = regexOf(pseg)
                  /\ undiverted(ns, paramNode, psegs, usegs, i + 1)

Undiverted(ns, pattern, url) ==
    undiverted(ns, root, Split(pattern, "/"), Split(url, "/"), 1)

\* ------------------------------------------------------------------------
\* C1
\* ------------------------------------------------------------------------

\* C1 (as stated): whatever other routes are registered, find on a path that
\* instantiates a registered (method, pattern) returns that pattern's terminal
\* node, Matched, with every parameter mapped to the literal used for it.
C1_Completeness ==
    found.called =>
        \A r \in routes :
            (MethodServes(r.method, found.method) /\ Instance(r.pattern, found.url).ok)
            => /\ Matched(found)
               /\ found.node = r.node
               /\ found.params = Instance(r.pattern, found.url).params

\* C1 (amended): the same, for the instantiations whose descent no other
\* route diverts: no static child keyed by the literal at a parameter position,
\* and the parameter child carrying this pattern's own name and regex.
C1_CompletenessUndiverted ==
    found.called =>
        \A r \in routes :
            ( /\ MethodServes(r.method, found.method)
              /\ Instance(r.pattern, found.url).ok
              /\ Undiverted(nodes, r.pattern, found.url) )
            => /\ Matched(found)
               /\ found.node = r.node
               /\ found.params = Instance(r.pattern, found.url).params

\* Two routes are registered and the lookup of a path that instantiates a
\* parameter route captured its parameter.
C1_Witness ==
    /\ found.called
    /\ Cardinality(routes) >= 2
    /\ \E r \in routes :
        /\ MethodServes(r.method, found.method)
        /\ Instance(r.pattern, found.url).ok
        /\ Undiverted(nodes, r.pattern, found.url)
        /\ Instance(r.pattern, found.url).params # EmptyMap
        /\ found.node = r.node

\* ------------------------------------------------------------------------
\* C2
\* ------------------------------------------------------------------------

NonEmpty(segments) == SelectSeq(segments, LAMBDA x : x # <<>>)

\* A pattern of static segments only.
StaticPattern(pattern) ==
    \A k \in 1..Len(Split(pattern, "/")) : ~isParamSegment(Split(pattern, "/")[k])

\* The lookup was of the path that spells a registered static route.
LookupOfStaticRoute(r) ==
    /\ found.called
    /\ StaticPattern(r.pattern)
    /\ NonEmpty(Split(found.url, "/")) = NonEmpty(Split(r.pattern, "/"))

\* A parameter route is registered beside the static route r: same segments
\* but the last, which is a parameter.
ParamSibling(r, q) ==
    LET rs == NonEmpty(Split(r.pattern, "/"))
        qs == NonEmpty(Split(q.pattern, "/"))
    IN  /\ Len(rs) = Len(qs)
        /\ Len(rs) > 0
        /\ SubSeq(rs, 1, Len(rs) - 1) = SubSeq(qs, 1, Len(qs) - 1)
        /\ isParamSegment(qs[Len(qs)])

\* C2 (trie.go half): the lookup of a path that spells a registered static
\* route returns that route's terminal node and captures nothing, whatever
\* parameter or wildcard children the nodes on the way have.
C2_StaticFirstTrie ==
    \A r \in routes :
        LookupOfStaticRoute(r) => found.node = r.node /\ found.params = EmptyMap

\* C2 (as stated): with a static route and a parameter route registered at
\* the same position, the lookup of the static route's path returns the static
\* route's terminal node and captures nothing, in the segment-keyed trie of
\* trie.go and in the prefix-compressed trie of part_000.
C2_StaticFirstBoth ==
    \A r, q \in routes :
        (LookupOfStaticRoute(r) /\ ParamSibling(r, q)) =>
            /\ found.node = r.node /\ found.params = EmptyMap
            /\ found000.node = r.node000 /\ found000.params = EmptyMap

\* /u/l and /u/{i} are both registered and /u/l was looked up.
C2_Witness ==
    \E r, q \in routes :
        /\ r.pattern = PatUL
        /\ q.pattern = PatUI
        /\ found.url = UrlUL
        /\ LookupOfStaticRoute(r)
        /\ ParamSibling(r, q)
        /\ found.node = r.node

\* ------------------------------------------------------------------------
\* C3
\* ------------------------------------------------------------------------

\* What a find of the request of p, run by itself, returns.
OwnFind(p) == find(nodes, root, req[p].method, req[p].url)

\* C3 (as stated): a request that reaches a terminal node with a handler for
\* its method or for "*" runs that composed handler; one that reaches a
\* terminal node with neither runs the method-not-allowed responder, never a
\* route handler or a middleware; one that reaches no terminal node runs the
\* not-found responder. With or without middlewares on the node.
C3_TriState ==
    \A p \in Procs :
        pc[p] = "done" =>
            LET node == loc[p].node IN
            IF node = 0 THEN out[p].kind = "notFound"
            ELSE IF ~IsNilHandler(resolve(nodes, node, req[p].method))
            THEN /\ out[p].kind = "route"
                 /\ out[p].handler = compose(nodes, node, req[p].method)
            ELSE /\ out[p].kind = "methodNotAllowed"
                 /\ out[p].handler.chain = <<>>

\* ------------------------------------------------------------------------
\* C4
\* ------------------------------------------------------------------------

\* What Params returns for a captured map, a nil map when it is empty.
ParamsFor(params) == IF params = EmptyMap THEN NilMap ELSE SomeMap(params)

\* C4 (as stated): with requests running concurrently after registration,
\* each is dispatched to the handler, and receives the route and parameters,
\* that a find of its own method and path run by itself produces.
C4_ConcurrentLookups ==
    \A p \in Procs :
        pc[p] = "done" =>
            LET own == OwnFind(p) IN
            IF own.node = 0 THEN out[p].kind = "notFound"
            ELSE /\ out[p].handler = own.handler
                 /\ CurrentRoute(out[p].ctx) = own.node
                 /\ Params(out[p].ctx) = ParamsFor(own.params)

\* ------------------------------------------------------------------------
\* C5
\* ------------------------------------------------------------------------

\* C5 (as stated): find leaves every field of every trie node as it was.
C5_FindReadOnly == [][nFinds' = nFinds + 1 => nodes' = nodes]_vars

\* ------------------------------------------------------------------------
\* C6
\* ------------------------------------------------------------------------

\* The pattern ends in a parameter that carries a regex, after static segments.
RegexRoute(pattern) ==
    LET ps == NonEmpty(Split(pattern, "/")) IN
    /\ Len(ps) > 0
    /\ isParamSegment(ps[Len(ps)])
    /\ regexOf(ps[Len(ps)]) # <<>>
    /\ ~isWildcardName(paramNameOf(ps[Len(ps)]))
    /\ \A k \in 1..(Len(ps) - 1) : ~isParamSegment(ps[k])

\* The lookup was of the static prefix of r followed by one segment, which
\* is no static sibling of the parameter, and the parameter child there is the
\* one r's pattern describes.
LookupAtRegexParam(r) ==
    LET ps == NonEmpty(Split(r.pattern, "/"))
        us == NonEmpty(Split(found.url, "/"))
    IN  /\ found.called
        /\ RegexRoute(r.pattern)
        /\ Len(us) = Len(ps)
        /\ SubSeq(us, 1, Len(us) - 1) = SubSeq(ps, 1, Len(ps) - 1)
        /\ undiverted(nodes, root, ps, us, 1)

LastSegment(url) == LET us == NonEmpty(Split(url, "/")) IN us[Len(us)]

C6_WitnessAccept ==
    \E r \in routes :
        /\ r.pattern = PatUN
        /\ LookupAtRegexParam(r)
        /\ found.url = UrlU12
        /\ Matched(found)
        /\ found.params = (<<"n">> :> <<"1", "2">>)

\* ------------------------------------------------------------------------
\* C7
\* ------------------------------------------------------------------------

\* A wildcard segment as the spec and the README write it (*rest, *) or as
\* trie.go reads it ({*rest}); its name is what follows the marker, "*" when
\* nothing does.
WildcardSegment(seg) ==
    \/ HasPrefix(seg, <<prefixWildcard>>)
    \/ isParamSegment(seg) /\ isWildcardName(paramNameOf(seg))

WildcardName(seg) ==
    LET marked == IF isParamSegment(seg) THEN paramNameOf(seg) ELSE seg
    IN  IF Len(marked) = 1 THEN marked ELSE Tail(marked)

\* The lookup was of the static prefix of r followed by one or more segments.
LookupUnderWildcard(r) ==
    LET ps == NonEmpty(Split(r.pattern, "/"))
        us == NonEmpty(Split(found.url, "/"))
    IN  /\ found.called
        /\ Len(ps) > 0
        /\ WildcardSegment(ps[Len(ps)])
        /\ \A k \in 1..(Len(ps) - 1) : ~isParamSegment(ps[k])
        /\ Len(us) >= Len(ps)
        /\ SubSeq(us, 1, Len(ps) - 1) = SubSeq(ps, 1, Len(ps) - 1)
        /\ MethodServes(r.method, found.method)

\* C7 (as stated): a route whose final segment is a wildcard named rest,
\* looked up with one or more segments after the static prefix, is Matched and
\* captures the remaining segments joined by "/" under the name rest.
C7_WildcardCapture ==
    \A r \in routes :
        LookupUnderWildcard(r) =>
            LET ps == NonEmpty(Split(r.pattern, "/"))
                us == NonEmpty(Split(found.url, "/"))
            IN  /\ Matched(found)
                /\ found.params = (WildcardName(ps[Len(ps)]) :>
                                      Join(SubSeq(us, Len(ps), Len(us)), "/"))

\* ------------------------------------------------------------------------
\* C8
\* ------------------------------------------------------------------------

Terminals(ns) == {n \in 1..Len(ns) : ns[n].isEnd}
Bindings(ns) == UNION {{<<n, m>> : m \in DOMAIN ns[n].methods} : n \in 1..Len(ns)}

\* A wildcard segment is followed by another non-empty segment.
MisplacedWildcard(pattern) ==
    LET ps == Split(pattern, "/") IN
    \E i \in 1..Len(ps) : \E j \in (i + 1)..Len(ps) :
        /\ isParamSegment(ps[i])
        /\ isWildcardName(paramNameOf(ps[i]))
        /\ ps[j] # <<>>

\* C8 (node.add half): add of a pattern with a misplaced wildcard returns an
\* error and creates no terminal node and no method binding.
C8_AddRejects ==
    [][(nAdds' = nAdds + 1 /\ MisplacedWildcard(lastAdd'.pattern)
            /\ lastAdd'.method # <<>>)
       => /\ lastAdd'.err = "wildcard must be the last segment"
          /\ lastAdd'.node = 0
          /\ Terminals(nodes') = Terminals(nodes)
          /\ Bindings(nodes') = Bindings(nodes)]_vars

\* C8 (as stated): Handle of a pattern with a misplaced wildcard gets the
\* error from add, no terminal node and no method binding is created, and the
\* error is passed to the panic handler of the Mux.
C8_HandleSurfaces ==
    [][(handled'.call # handled.call /\ MisplacedWildcard(handled'.fullPattern))
       => /\ handled'.errs # <<>>
          /\ handled'.errs[Len(handled'.errs)] = "wildcard must be the last segment"
          /\ Terminals(nodes') = Terminals(nodes)
          /\ Bindings(nodes') = Bindings(nodes)
          /\ handled'.panic = "panicHandler(err)"]_vars

\* ------------------------------------------------------------------------
\* C9
\* ------------------------------------------------------------------------

\* C9 (as stated): on a Mux from New or from Group, a panic of the handler
\* selected for the request is recovered: the internal-error responder is
\* invoked once and the panic does not leave ServeHTTP.
C9_FaultContained ==
    \A p \in Procs :
        (pc[p] = "done" /\ out[p].kind = "route" /\ out[p].handler.base = "hpanic")
        => out[p].internalErrors = 1 /\ ~out[p].propagated

\* ------------------------------------------------------------------------
\* C10
\* ------------------------------------------------------------------------

\* C10 (as stated): the handler invoked for a request that reached a terminal
\* node receives that node as CurrentRoute and exactly the captured map as
\* Params; for a request that reached none both are nil.
C10_ContextExact ==
    \A p \in Procs :
        pc[p] = "done" =>
            LET own == OwnFind(p) IN
            IF own.node = 0
            THEN CurrentRoute(out[p].ctx) = 0 /\ Params(out[p].ctx) = NilMap
            ELSE /\ CurrentRoute(out[p].ctx) = own.node
                 /\ Params(out[p].ctx) = SomeMap(own.params)

\* C10 (amended): the same, but Params is the captured map only when it holds
\* a parameter; it is nil when the lookup captured none.
C10_ContextPropagation ==
    \A p \in Procs :
        pc[p] = "done" =>
            LET own == OwnFind(p) IN
            IF own.node = 0
            THEN CurrentRoute(out[p].ctx) = 0 /\ Params(out[p].ctx) = NilMap
            ELSE /\ CurrentRoute(out[p].ctx) = own.node
                 /\ Params(out[p].ctx) = ParamsFor(own.params)

\* A request that captured a parameter ended at the method-not-allowed
\* responder, with the node and the parameter in its context.
C10_Witness ==
    \E p \in Procs :
        /\ pc[p] = "done"
        /\ out[p].kind = "methodNotAllowed"
        /\ OwnFind(p).params # EmptyMap
        /\ Params(out[p].ctx) = SomeMap(OwnFind(p).params)
        /\ CurrentRoute(out[p].ctx) = OwnFind(p).node

\* ------------------------------------------------------------------------
\* C11
\* ------------------------------------------------------------------------

\* C11: the handler find composes for a terminal node enters the node's
\* middlewares in registration order, each calling the next, and the resolved
\* base handler after all of them.
C11_MiddlewareOrder ==
    (found.called /\ found.node # 0) =>
        entered(found.handler) =
            nodes[found.node].middlewares
                \o <<resolve(nodes, found.node, found.method).base>>

\* A lookup matched a route registered with m1 and m2: m1, m2, then h1.
C11_Witness ==
    /\ found.called
    /\ Matched(found)
    /\ nodes[found.node].middlewares = <<"m1", "m2">>
    /\ entered(found.handler) = <<"m1", "m2", "h1">>

\* ------------------------------------------------------------------------
\* C12
\* ------------------------------------------------------------------------

\* The add call of this step succeeded at a node that was terminal before it.
AddAtTerminal ==
    /\ nAdds' = nAdds + 1
    /\ lastAdd'.err = "none"
    /\ lastAdd'.node <= Len(nodes)
    /\ nodes[lastAdd'.node].isEnd

\* C12 (as stated): add at an existing terminal node binds the method to the
\* handler and appends the supplied middlewares to the list the node already
\* holds, and changes nothing else.
C12_Cumulative ==
    [][AddAtTerminal =>
        nodes' = [nodes EXCEPT
                    ![lastAdd'.node].methods = (lastAdd'.method :> lastAdd'.handler) @@ @,
                    ![lastAdd'.node].middlewares = @ \o lastAdd'.middlewares]]_vars

\* ------------------------------------------------------------------------
\* C13
\* ------------------------------------------------------------------------

\* The path with its leading, trailing and duplicate slashes normalized: one
\* slash before each non-empty segment.
RECURSIVE slashed(_)
slashed(segments) ==
    IF segments = <<>> THEN <<>>
    ELSE <<"/">> \o Head(segments) \o slashed(Tail(segments))

Canon(path) ==
    LET segments == NonEmpty(Split(path, "/"))
    IN  IF segments = <<>> THEN <<"/">> ELSE slashed(segments)

Outcome(f) ==
    IF f.node = 0 THEN "NotFound"
    ELSE IF IsNilHandler(f.handler) THEN "MethodNotSupported" ELSE "Matched"

\* add of the pattern of this step and add of its normalized form succeed
\* together and end at the same node.
AddNormalizes ==
    (nAdds' = nAdds + 1 /\ lastAdd'.pattern # <<>>) =>
        LET canon == add(nodes, root, lastAdd'.method, Canon(lastAdd'.pattern),
                         lastAdd'.handler, lastAdd'.middlewares)
        IN  /\ (lastAdd'.err = "none") <=> (canon.err = "none")
            /\ lastAdd'.err = "none" => lastAdd'.node = canon.node

\* find of the path looked up and find of its normalized form have the same
\* outcome and the same captured parameters.
FindNormalizes ==
    found.called =>
        LET canon == find(nodes, root, found.method, Canon(found.url))
        IN  /\ Outcome(found) = Outcome(canon)
            /\ found.params = canon.params

\* C13 (as stated): slash variants of a pattern register alike and at the
\* same terminal node, and slash variants of a path are looked up alike, with
\* the same parameter values, a wildcard's included.
C13_SlashNormalization == []FindNormalizes /\ [][AddNormalizes]_vars

\* ------------------------------------------------------------------------
\* C14
\* ------------------------------------------------------------------------

\* The add calls the character trie and the compressed trie accepted (they
\* refuse only an empty method or pattern and a nil handler).
Accepted ==
    {regs[k] : k \in {j \in 1..Len(regs) :
        regs[j].method # <<>> /\ regs[j].pattern # <<>> /\ ~IsNilHandler(regs[j].handler)}}

\* With static patterns only, a lookup that reaches a terminal node has the
\* segments of a registered pattern, string for string.
Verbatim(f) ==
    (f.called /\ f.node # 0 /\ \A r \in Accepted : StaticPattern(r.pattern)) =>
        \E r \in Accepted :
            NonEmpty(Split(r.pattern, "/")) = NonEmpty(Split(f.url, "/"))

\* C14 (as stated): after the same add calls the character trie and the
\* compressed trie return the same outcome and the same parameters for every
\* lookup, and both match static segments verbatim.
C14_StaticStrategiesAgree ==
    /\ Outcome(foundRune) = Outcome(found000)
    /\ foundRune.params = found000.params
    /\ Verbatim(foundRune)
    /\ Verbatim(found000)

\* ------------------------------------------------------------------------
\* C15
\* ------------------------------------------------------------------------

\* The node the static segments of prefix lead to from n, 0 when there is none.
RECURSIVE nodeAt(_, _, _, _)
nodeAt(ns, n, prefix, k) ==
    IF k > Len(prefix) THEN n
    ELSE IF prefix[k] \in DOMAIN ns[n].children
    THEN nodeAt(ns, ns[n].children[prefix[k]], prefix, k + 1)
    ELSE 0

\* The add call r passes the static segments of prefix and then a parameter
\* segment that add accepts there (a wildcard only as the last element).
CreatesAt(r, prefix) ==
    LET ps == NonEmpty(Split(r.pattern, "/"))
        k == Len(prefix) + 1
    IN  /\ r.method # <<>> /\ ~IsNilHandler(r.handler)
        /\ Len(ps) >= k
        /\ SubSeq(ps, 1, Len(prefix)) = prefix
        /\ \A j \in 1..Len(prefix) : ~isParamSegment(ps[j])
        /\ isParamSegment(ps[k])
        /\ isWildcardName(paramNameOf(ps[k])) =>
               (k = Len(ps) /\ ~HasSuffix(r.pattern, <<"/">>))

\* The parameter segment of the first add call that created the parameter
\* child after prefix.
FirstSegmentAt(prefix) ==
    LET first == CHOOSE j \in 1..Len(regs) :
                    /\ CreatesAt(regs[j], prefix)
                    /\ \A i \in 1..(j - 1) : ~CreatesAt(regs[i], prefix)
    IN  NonEmpty(Split(regs[first].pattern, "/"))[Len(prefix) + 1]

Prefixes ==
    UNION {{SubSeq(NonEmpty(Split(regs[j].pattern, "/")), 1, k) :
                k \in 0..Len(NonEmpty(Split(regs[j].pattern, "/")))} : j \in 1..Len(regs)}

\* The parameter child of every node that has one keeps its name and regex,
\* and the node keeps the child.
ParamChildFrozen ==
    \A n \in 1..Len(nodes) :
        nodes[n].paramNode # 0 =>
            /\ nodes'[n].paramNode = nodes[n].paramNode
            /\ nodes'[nodes[n].paramNode].paramName = nodes[nodes[n].paramNode].paramName
            /\ nodes'[nodes[n].paramNode].regex = nodes[nodes[n].paramNode].regex

\* The child carries the name and regex of the first registration through
\* it, and a lookup that comes to it with a segment that is no static child
\* is refused by that regex alone and captures under that name.
FirstNameAndRegex ==
    \A prefix \in Prefixes :
        (\E j \in 1..Len(regs) : CreatesAt(regs[j], prefix)) =>
            LET at == nodeAt(nodes, root, prefix, 1)
                child == nodes[at].paramNode
                name == paramNameOf(FirstSegmentAt(prefix))
                regex == regexOf(FirstSegmentAt(prefix))
                us == NonEmpty(Split(found.url, "/"))
                k == Len(prefix) + 1
            IN  /\ at # 0 /\ child # 0
                /\ nodes[child].paramName = name
                /\ nodes[child].regex = regex
                /\ (/\ found.called
                    /\ Len(us) >= k
                    /\ SubSeq(us, 1, Len(prefix)) = prefix
                    /\ us[k] \notin DOMAIN nodes[at].children)
                   => IF isWildcardName(name)
                      THEN found.node = child /\ DOMAIN found.params = {name}
                      ELSE IF regex # <<>> /\ ~MatchString(regex[1], us[k])
                      THEN found.node = 0
                      ELSE /\ found.node # 0 =>
                                (name \in DOMAIN found.params /\ found.params[name] = us[k])
                           /\ (Len(us) = k /\ nodes[child].isEnd) => found.node = child

\* C15: the first registration that creates a parameter child fixes its name
\* and regex; later registrations through the position leave them unchanged,
\* and lookups capture under the first name and are refused by the first
\* regex only.
C15_FirstRegistrationWins == []FirstNameAndRegex /\ [][ParamChildFrozen]_vars

\* /u/{n:[0-9]+} was registered first and /u/{i} or /u/{*r} after it, and the
\* lookup of /u/ab was refused by the first regex.
C15_Witness ==
    /\ Len(regs) = 2
    /\ regs[1].pattern = PatUN /\ regs[1].err = "none"
    /\ regs[2].pattern \in {PatUI, PatUW} /\ regs[2].err = "none"
    /\ found.called /\ found.url = UrlUab /\ found.node = 0

\* /u/{i} was registered first and /u/{n:[0-9]+} after it, and the lookup of
\* /u/ab captured ab under i.
C15_WitnessName ==
    /\ Len(regs) = 2
    /\ regs[1].pattern = PatUI /\ regs[1].err = "none"
    /\ regs[2].pattern = PatUN /\ regs[2].err = "none"
    /\ found.called /\ found.url = UrlUab
    /\ found.params = (<<"i">> :> <<"a", "b">>)

\* ------------------------------------------------------------------------
\* C16
\* ------------------------------------------------------------------------

\* The middleware list of every Mux is what it inherited when it was made
\* followed by what its own Use calls added.
ListsAsGranted ==
    \A m \in 1..Len(muxes) : elemsOf(arrays, muxes[m].middlewares) = granted[m]

\* The Handle call of this step registered with that list.
HandleAsGranted ==
    handled'.call # handled.call => handled'.middlewares = granted[handled'.mux]

\* C16 (as stated): a Mux from Group has its own copy of the parent's
\* middleware list; Use on the parent, the group or a sibling changes the
\* caller's list only, so every route is registered with the middlewares its
\* Mux inherited followed by those of that Mux's own Use calls.
C16_GroupSnapshot == []ListsAsGranted /\ [][HandleAsGranted]_vars

\* ------------------------------------------------------------------------
\* C17
\* ------------------------------------------------------------------------

\* The add call of this step returned an error.
AddFailed == nAdds' = nAdds + 1 /\ lastAdd'.err # "none"

\* find gives the same outcome and the same parameters on both tries.
SameLookups(before, after) ==
    \A method \in ReqMethods, url \in RegUrls :
        LET b == find(before, root, method, url)
            a == find(after, root, method, url)
        IN  /\ Outcome(a) = Outcome(b)
            /\ a.params = b.params

\* C17 (as stated): when node.add returns an error, find returns for every
\* method and path the outcome and the parameters it returned before the call.
C17_FailedAddUnobservable == [][AddFailed => SameLookups(nodes, nodes')]_vars

\* ------------------------------------------------------------------------
\* C18
\* ------------------------------------------------------------------------

\* The middlewares passed to the successful registrations of (method,
\* pattern) among the first j add calls, in the order of the calls.
RECURSIVE Passed(_, _, _)
Passed(j, method, pattern) ==
    IF j = 0 THEN <<>>
    ELSE Passed(j - 1, method, pattern)
         \o (IF /\ regs[j].err = "none"
                /\ regs[j].method = method
                /\ regs[j].pattern = pattern
             THEN regs[j].middlewares ELSE <<>>)

\* C18 (as stated): the handler find composes for a registered (method,
\* pattern) is wrapped by exactly the middlewares passed to the registrations
\* of that method and pattern, whatever else has been registered.
C18_MiddlewareIsolation ==
    \A j \in 1..Len(regs) :
        regs[j].err = "none" =>
            entered(compose(nodes, regs[j].node, regs[j].method))
                = Passed(Len(regs), regs[j].method, regs[j].pattern)
                  \o <<regs[j].handler.base>>

====
